---- MODULE Spec2Model ----
(***************************************************************************)
(* A model of the WAMP client: the pending-operation table (sync/context), *)
(* the single-threaded dispatch engine (sync/client), the broadcast engine *)
(* (threads/client) and the blocking request helper (threads/pubsub).      *)
(***************************************************************************)
EXTENDS Integers, Sequences, FiniteSets, TLC

\* ------------------------------------------------------------------ bounds
\* Request identifiers are 1..MaxId, subscription identifiers 1..MaxSub.
MaxId == 2
MaxSub == 2
\* Pending entries held by the live Context, all lists together.
MaxEntries == 3
\* Entries and queued messages of a Context used on its own.
MaxCtxEntries == 2
MaxQueue == 2
\* Broadcast engine: calls of on(), dispatch units alive at once, routing ids.
MaxListeners == 2
MaxUnits == 2
MaxRouting == 2
\* Detached Contexts waiting to be merged at once.
MaxParts == 3
\* The clock runs for MaxTicks ticks of TickSecs seconds.
MaxTicks == 3
TickSecs == 5

RequestIds == 1..MaxId
SubscriptionIds == 1..MaxSub

\* ------------------------------------------------------------------ state
VARIABLES
    context,    \* sync Client.context: the live Context
    pc,         \* where the caller of the sync engine stands
    op,         \* the operation the latest step ran
    message,    \* the message the latest step decoded or was given
    result,     \* what the latest operation returned to its caller
    fired,      \* the pending entry whose callback the latest step invoked
    sent,       \* frames written on the Transport Channel by the latest step
    frame,      \* the kind of frame the latest step read, "-" if it read none
    dropped,    \* the number of pending entries the latest step removed
    detached,   \* the detached Contexts not yet merged, oldest first
    handed      \* the Context the latest step handed to a callback, and what
                \* was written on the channel while the callback ran

syncVars ==
    <<context, pc, op, message, result, fired, sent, frame, dropped, detached,
      handed>>

VARIABLES
    events,         \* threads Client.events: the registry of listeners
    events_lock,    \* the dispatch unit holding the registry mutex, 0 when free
    events_poisoned,\* the registry mutex is poisoned
    units,          \* the dispatch units spawned by run_events
    registered,     \* the routing id of every listener on() has added, by listener
    removed,        \* the listeners remove_callbacks was asked to remove
    counter,        \* threads Client.request_id: the shared counter
    reader,         \* the thread inside event_loop, and what event_loop returned
    sender,         \* a thread (or callback) inside Client::send
    helper,         \* the Subscription helper and the thread inside its call
    cells,          \* the result cells of the call: routed_reference, wamperror
    now,            \* the system clock, in ticks
    first_write     \* the tick at which a result cell was first populated, -1 if none

threadVars ==
    <<events, events_lock, events_poisoned, units, registered, removed, counter,
      reader, sender, helper, cells, now, first_write>>

vars == <<syncVars, threadVars>>

\* ------------------------------------------------------------- messages
\* A decoded protocol message: its variant and the fields correlation reads.
Msg(t, r, s, e) == [type |-> t, request_id |-> r, subscription |-> s, event |-> e]

NoMsg == Msg("None", 0, 0, "-")

\* WampErrorEvent: the category tag an Error carries.
WampErrorEvent ==
    {"Call", "Unsubscribe", "Subscribe", "Publish", "Register", "Unregister",
     "Invocation", "Cancel"}

\* Success responses correlated by request id.
ResponseTypes ==
    {"Registered", "Unregistered", "Unsubscribed", "Published", "Result",
     "Invocation", "Interrupt"}

SessionTypes == {"Welcome", "Challenge", "Goodbye"}

\* Messages only a router may receive.
InvalidTypes ==
    {"Cancel", "Call", "Yield", "Authenticate", "Hello", "Publish", "Register",
     "Subscribe", "Unregister", "Unsubscribe"}

\* Every message the codec can decode from a Text frame.
Messages ==
    {Msg("Error", r, 0, e) : r \in RequestIds, e \in WampErrorEvent}
    \cup {Msg(t, r, 0, "-") : t \in ResponseTypes, r \in RequestIds}
    \cup {Msg("Subscribed", r, s, "-") : r \in RequestIds, s \in SubscriptionIds}
    \cup {Msg("Event", 0, s, "-") : s \in SubscriptionIds}
    \cup {Msg(t, 0, 0, "-") : t \in SessionTypes \cup InvalidTypes \cup {"Abort", "Extension"}}

\* What the blocking read of the transport can produce: a frame, or a failure.
Frames == {"Text", "Undecodable", "Ping", "Pong", "Close", "Binary", "Frame", "TransportError"}

\* ------------------------------------------------------------- results
Res(tag, m, e) == [tag |-> tag, msg |-> m, err |-> e]

NoResult == Res("-", NoMsg, "-")
OkNone == Res("Ok", NoMsg, "-")
OkSome(m) == Res("Ok", m, "-")
Err(e, m) == Res("Err", m, e)
Panic == Res("Panic", NoMsg, "-")

NoCb == [list |-> "none", idx |-> 0, ok |-> FALSE]
Cb(l, i, ok) == [list |-> l, idx |-> i, ok |-> ok]

\* No callback ran; a callback ran on a Context with or without the channel and
\* wrote the frames out meanwhile.
NoHanded == [ran |-> FALSE, socket |-> FALSE, out |-> <<>>]
Handed(ctx, out) == [ran |-> TRUE, socket |-> ctx.socket, out |-> out]

\* ------------------------------------------------------------- Context
\* The correlation lists of a Context, in declaration order.
Lists ==
    {"registrations", "unregistrations", "subscriptions", "unsubscriptions",
     "publications", "calls", "events", "invocations", "cancelations"}

\* Context::new: every list and the outbound queue empty; socket is TRUE when a
\* channel is attached.
NewContext(socket) ==
    [socket |-> socket,
     registrations |-> <<>>, unregistrations |-> <<>>, subscriptions |-> <<>>,
     unsubscriptions |-> <<>>, publications |-> <<>>, calls |-> <<>>,
     events |-> <<>>, invocations |-> <<>>, messages |-> <<>>,
     cancelations |-> <<>>]

\* The stored half of a pending entry: the request (or confirmation) value.
Entry(r, s) == [request_id |-> r, subscription |-> s]

\* The push methods: method name -> (list, type of the value sent, no_send).
Methods ==
    {"register", "unregister", "event", "unsubscribe", "subscribe", "publish",
     "call", "invocation", "cancel"}

MethodList(m) ==
    CASE m = "register" -> "registrations"
      [] m = "unregister" -> "unregistrations"
      [] m = "event" -> "events"
      [] m = "unsubscribe" -> "unsubscriptions"
      [] m = "subscribe" -> "subscriptions"
      [] m = "publish" -> "publications"
      [] m = "call" -> "calls"
      [] m = "invocation" -> "invocations"
      [] m = "cancel" -> "cancelations"

MethodType(m) ==
    CASE m = "register" -> "Register"
      [] m = "unregister" -> "Unregister"
      [] m = "event" -> "Subscribed"
      [] m = "unsubscribe" -> "Unsubscribe"
      [] m = "subscribe" -> "Subscribe"
      [] m = "publish" -> "Publish"
      [] m = "call" -> "Call"
      [] m = "invocation" -> "Registered"
      [] m = "cancel" -> "Cancel"

\* The values a caller can hand to each push method.
MethodArgs(m) ==
    IF m \in {"unsubscribe", "event"}
    THEN {Entry(r, s) : r \in RequestIds, s \in SubscriptionIds}
    ELSE {Entry(r, 0) : r \in RequestIds}

\* Context::send that queues the message whether or not a channel is attached.
SendAlwaysQueues(ctx, m, transport_ok) ==
    [ctx |-> [ctx EXCEPT !.messages = Append(@, m)],
     out |-> IF ctx.socket /\ transport_ok THEN <<m>> ELSE <<>>,
     res |-> "Ok"]

\* Context::send. transport_ok is whether the channel accepts the write.
\* Gives the Context afterwards, the frames written and the value returned.
Send(ctx, m, transport_ok) ==
    IF ctx.socket
    THEN IF transport_ok
         THEN [ctx |-> ctx, out |-> <<m>>, res |-> "Ok"]
         ELSE [ctx |-> ctx, out |-> <<>>, res |-> "Err"]
    ELSE [ctx |-> [ctx EXCEPT !.messages = Append(@, m)], out |-> <<>>, res |-> "Ok"]

\* A push method that appends the pair before it sends, and keeps it when the
\* send fails.
PushBeforeSend(ctx, method, req, transport_ok) ==
    LET list == MethodList(method)
        pushed == [ctx EXCEPT ![list] = Append(@, req)]
        s == Send(pushed, Msg(MethodType(method), req.request_id,
                              req.subscription, "-"), transport_ok)
    IN  IF method = "event"
        THEN [ctx |-> pushed, out |-> <<>>, res |-> "Ok"]
        ELSE s

\* create_push_methods: send the request, then append (request, callback).
\* The no_send variant (event) only appends.
Push(ctx, method, req, transport_ok) ==
    LET list == MethodList(method)
        pushed(c) == [c EXCEPT ![list] = Append(@, req)]
    IN  IF method = "event"
        THEN [ctx |-> pushed(ctx), out |-> <<>>, res |-> "Ok"]
        ELSE LET s == Send(ctx, Msg(MethodType(method), req.request_id,
                                    req.subscription, "-"), transport_ok)
             IN  IF s.res = "Err"
                 THEN s
                 ELSE [ctx |-> pushed(s.ctx), out |-> s.out, res |-> "Ok"]

\* An extend that only a Context with a channel performs.
ExtendLiveOnly(self, ctx) ==
    IF self.socket
    THEN [self EXCEPT
            !.registrations = @ \o ctx.registrations,
            !.unregistrations = @ \o ctx.unregistrations,
            !.events = @ \o ctx.events,
            !.unsubscriptions = @ \o ctx.unsubscriptions,
            !.subscriptions = @ \o ctx.subscriptions,
            !.publications = @ \o ctx.publications,
            !.calls = @ \o ctx.calls,
            !.invocations = @ \o ctx.invocations,
            !.messages = @ \o ctx.messages]
    ELSE self

\* An extend that puts the lists and the queue of ctx in front of those of self.
ExtendPrepending(self, ctx) ==
    [self EXCEPT
        !.registrations = ctx.registrations \o @,
        !.unregistrations = ctx.unregistrations \o @,
        !.events = ctx.events \o @,
        !.unsubscriptions = ctx.unsubscriptions \o @,
        !.subscriptions = ctx.subscriptions \o @,
        !.publications = ctx.publications \o @,
        !.calls = ctx.calls \o @,
        !.invocations = ctx.invocations \o @,
        !.messages = ctx.messages \o @]

\* Context::extend: append the lists and the queue of ctx to self.
Extend(self, ctx) ==
    [self EXCEPT
        !.registrations = @ \o ctx.registrations,
        !.unregistrations = @ \o ctx.unregistrations,
        !.events = @ \o ctx.events,
        !.unsubscriptions = @ \o ctx.unsubscriptions,
        !.subscriptions = @ \o ctx.subscriptions,
        !.publications = @ \o ctx.publications,
        !.calls = @ \o ctx.calls,
        !.invocations = @ \o ctx.invocations,
        !.messages = @ \o ctx.messages]

\* iter_mut().find(..): the index of the first element satisfying P, 0 if none.
FindFirst(seq, P(_)) ==
    IF \E i \in 1..Len(seq) : P(seq[i])
    THEN CHOOSE i \in 1..Len(seq) : P(seq[i]) /\ \A j \in 1..(i - 1) : ~P(seq[j])
    ELSE 0

\* A lookup that takes the first pending entry whatever its request id.
FindAnyEntry(ctx, list, request_id) == IF Len(ctx[list]) > 0 THEN 1 ELSE 0

\* create_find_methods / create_find_by_error_method: first entry of the list
\* with the request id of the response (or error).
FindByRequestId(ctx, list, request_id) ==
    LET P(e) == e.request_id = request_id IN FindFirst(ctx[list], P)

\* A lookup of events that compares the request id of the stored Subscribed.
FindEventByRequestId(ctx, subscription) ==
    LET P(e) == e.request_id = subscription IN FindFirst(ctx.events, P)

\* create_find_methods (event:): first entry of events with the subscription.
FindEvent(ctx, subscription) ==
    LET P(e) == e.subscription = subscription IN FindFirst(ctx.events, P)

\* Vec::retain.
Retain(seq, P(_)) == SelectSeq(seq, P)

RECURSIVE SumEntries(_)
RECURSIVE SumQueued(_)

TotalEntries(ctx) ==
    Len(ctx.registrations) + Len(ctx.unregistrations) + Len(ctx.subscriptions)
    + Len(ctx.unsubscriptions) + Len(ctx.publications) + Len(ctx.calls)
    + Len(ctx.events) + Len(ctx.invocations) + Len(ctx.cancelations)

\* The pending entries of a sequence of Contexts.
SumEntries(ctxs) ==
    IF ctxs = <<>> THEN 0 ELSE TotalEntries(Head(ctxs)) + SumEntries(Tail(ctxs))

\* The queued messages of a sequence of Contexts.
SumQueued(ctxs) ==
    IF ctxs = <<>> THEN 0 ELSE Len(Head(ctxs).messages) + SumQueued(Tail(ctxs))

\* ------------------------------------------------------ broadcast engine
\* The variants of Events a listener can be registered for: the messages a
\* client may receive.
EventKinds ==
    {"Abort", "Goodbye", "Error", "Event", "Interrupt", "Published", "Registered",
     "Result", "Subscribed", "Invocation", "Unsubscribed", "Welcome", "Challenge",
     "Extension", "Unregistered"}

\* What the callback of a listener does: nothing, a call of on() or
\* remove_callbacks() on the Client it is handed, or (the helper's listeners)
\* a write into a result cell or a call of the callback given to events().
ListenerBodies == {"nop", "reenter", "helper_ok", "helper_err", "helper_event"}

\* A listener: its routing id, the variant of Events, what its closure does and
\* the identifier its closure captured (0 when it captured none).
Listener(id, routing, kind, body, captured) ==
    [id |-> id, routing |-> routing, kind |-> kind, body |-> body,
     captured |-> captured]

\* A dispatch unit: where its thread stands, the message it was spawned for, the
\* listener it is at, the registry as it was when the unit locked it, the
\* listeners it has invoked, whether a callback of another unit was running
\* when it was spawned, the listeners of events() that have called the callback
\* of the user, and the units of messages of its kind read before its own that
\* have not taken the registry yet.
IdleUnit ==
    [st |-> "idle", kind |-> "-", request_id |-> 0, subscription |-> 0, idx |-> 0,
     snapshot |-> <<>>, invoked |-> <<>>, overlap |-> FALSE, delivered |-> <<>>,
     earlier |-> {}]

\* The thread inside Client::event_loop: looping, or returned with the error of
\* read_then_run_event and the kind of the message the error carries, or dead of
\* a panic; with the kind of the frame its latest read took. While it is looping
\* the thread is blocked inside read(), on the frame to come.
NewReader == [st |-> "running", err |-> "-", kind |-> "-", frame |-> "-"]

\* Subscription.subscribed when it is None.
NoSubscribed == [request_id |-> 0, subscription |-> 0]

IdleHelper ==
    [pc |-> "idle", variant |-> "-", request_id |-> 0, routing_ids |-> <<>>,
     time_start |-> 0, result |-> FALSE, ret |-> "-",
     subscribed |-> NoSubscribed, events_ret |-> "-",
     sent |-> 0, polled_both |-> FALSE, listening |-> <<>>]

ThreadsNew ==
    /\ events = <<>>
    /\ events_lock = 0
    /\ events_poisoned = FALSE
    /\ units = [u \in 1..MaxUnits |-> IdleUnit]
    /\ registered = <<>>
    /\ removed = {}
    /\ counter = 0
    /\ reader = NewReader
    /\ sender = "idle"
    /\ helper = IdleHelper
    /\ cells = [routed_reference |-> FALSE, wamperror |-> FALSE]
    /\ now = 0
    /\ first_write = -1

\* Client::new_routing_id / Client::new_request_id: the value returned. The
\* incremented value is a local copy; the counter is not written.
NewRoutingId(c) == c + 1

\* The retain of remove_callbacks that keeps the listed listeners instead.
RetainListed(evs, routing_ids) ==
    LET keep(l) == l.routing \in routing_ids IN SelectSeq(evs, keep)

\* The retain of Client::remove_callbacks: drop every listener whose routing id
\* is listed.
RetainOthers(evs, routing_ids) ==
    LET keep(l) == l.routing \notin routing_ids IN SelectSeq(evs, keep)

\* Client::on(routing_id, event), called from a thread that holds no lock.
On(routing, kind, body) ==
    /\ events_lock = 0
    /\ ~events_poisoned
    /\ Len(registered) < MaxListeners
    /\ events' = Append(events, Listener(Len(registered) + 1, routing, kind, body, 0))
    /\ registered' = Append(registered, routing)
    /\ UNCHANGED <<syncVars, events_lock, events_poisoned, units, removed, counter,
                   reader, sender, helper, cells, now, first_write>>

\* Client::remove_callbacks(routing_ids), called from a thread that holds no lock.
RemoveCallbacks(routing_ids) ==
    /\ events_lock = 0
    /\ ~events_poisoned
    /\ events' = RetainOthers(events, routing_ids)
    /\ removed' = removed \cup {i \in 1..Len(registered) : registered[i] \in routing_ids}
    /\ UNCHANGED <<syncVars, events_lock, events_poisoned, units, registered, counter,
                   reader, sender, helper, cells, now, first_write>>

\* A read loop that joins the unit it spawned before it reads again.
ReadThenJoin(kind, rid, sub) ==
    /\ reader.st = "running"
    /\ \A v \in 1..MaxUnits : units[v].st = "idle"
    /\ kind \in EventKinds
    /\ units' = [units EXCEPT ![1] =
                    [st |-> "spawned", kind |-> kind, request_id |-> rid,
                     subscription |-> sub, idx |-> 0, snapshot |-> <<>>,
                     invoked |-> <<>>, overlap |-> FALSE, delivered |-> <<>>,
                     earlier |-> {}]]
    /\ UNCHANGED <<syncVars, events, events_lock, events_poisoned, registered, removed,
                   counter, reader, sender, helper, cells, now, first_write>>

\* Client::read on a frame that is not a decodable Text frame. The read is
\* unwrapped, an undecodable Text is the error of from_str, every other frame is
\* Ok(None).
ThreadsReadReturn(f) ==
    CASE f = "TransportError" -> Panic
      [] f = "Undecodable" -> Err("Decode", NoMsg)
      [] f \in {"Ping", "Pong", "Close", "Binary", "Frame"} -> OkNone

\* The channel mutex between two reads: read() returns and drops the guard it
\* held while it was blocked, and a send that was waiting for the mutex gets it
\* before the loop is back in read(), or does not.
BetweenReads == IF sender = "waiting" THEN {"waiting", "done"} ELSE {sender}

\* Client::read holds the channel mutex: the guard of self.socket.lock() lives
\* as long as the blocking read of the match.
ReaderHoldsChannel == reader.st = "running"

\* One turn of Client::event_loop on a Text frame decoded to a message:
\* read_then_run_event calls run_events, which spawns the dispatch unit of a
\* message a client may receive and returns without joining it, and returns
\* Err(InvalidFrameReceived(message)) on any other message; event_loop returns
\* the error.
ReadThenRunEvent(kind, rid, sub) ==
    /\ reader.st = "running"
    /\ IF kind \in EventKinds
       THEN /\ \E u \in 1..MaxUnits :
                /\ units[u].st = "idle"
                /\ \A v \in 1..(u - 1) : units[v].st # "idle"
                /\ units' = [units EXCEPT ![u] =
                                [st |-> "spawned", kind |-> kind, request_id |-> rid,
                                 subscription |-> sub, idx |-> 0, snapshot |-> <<>>,
                                 invoked |-> <<>>,
                                 overlap |-> \E v \in 1..MaxUnits :
                                                units[v].st = "callback",
                                 delivered |-> <<>>,
                                 earlier |-> {v \in 1..MaxUnits :
                                                /\ units[v].st = "spawned"
                                                /\ units[v].kind = kind}]]
            /\ reader' = [reader EXCEPT !.frame = "Text"]
            /\ sender' \in BetweenReads
       ELSE /\ reader' = [st |-> "returned", err |-> "InvalidFrameReceived",
                          kind |-> kind, frame |-> "Text"]
            /\ UNCHANGED <<units, sender>>
    /\ UNCHANGED <<syncVars, events, events_lock, events_poisoned, registered, removed,
                   counter, helper, cells, now, first_write>>

\* One turn of Client::event_loop on any other frame, or on a failed read:
\* read_then_run_event returns Ok(None) and the loop reads again, or event_loop
\* returns the error of the decoder, or the thread panics in read (inside the
\* guard of the channel mutex).
ReadNoMessage(f) ==
    /\ reader.st = "running"
    /\ reader' = CASE ThreadsReadReturn(f) = OkNone -> [reader EXCEPT !.frame = f]
                   [] ThreadsReadReturn(f) = Panic ->
                        [st |-> "panicked", err |-> "-", kind |-> "-", frame |-> f]
                   [] OTHER ->
                        [st |-> "returned", err |-> ThreadsReadReturn(f).err,
                         kind |-> "-", frame |-> f]
    /\ IF ThreadsReadReturn(f) = OkNone
       THEN sender' \in BetweenReads
       ELSE UNCHANGED sender
    /\ UNCHANGED <<syncVars, events, events_lock, events_poisoned, units, registered,
                   removed, counter, helper, cells, now, first_write>>

\* The caller of event_loop drops the error and calls event_loop again; a send
\* that was waiting gets the channel mutex before the new read, or does not.
EventLoopAgain ==
    /\ reader.st = "returned"
    /\ reader' = NewReader
    /\ sender' \in BetweenReads
    /\ UNCHANGED <<syncVars, events, events_lock, events_poisoned, units, registered,
                   removed, counter, helper, cells, now, first_write>>

\* Client::send called by a thread or a callback: self.socket.lock().expect(..)
\* returns at once when nobody holds the channel mutex, waits while the read
\* loop holds it, and panics when the read loop died holding it.
ClientSend ==
    /\ sender = "idle"
    /\ sender' = CASE ReaderHoldsChannel -> "waiting"
                   [] reader.st = "panicked" -> "panicked"
                   [] OTHER -> "done"
    /\ UNCHANGED <<syncVars, events, events_lock, events_poisoned, units, registered,
                   removed, counter, reader, helper, cells, now, first_write>>

\* The send that waited gets the channel mutex the read loop left for good.
SendAcquire ==
    /\ sender = "waiting"
    /\ ~ReaderHoldsChannel
    /\ sender' = IF reader.st = "panicked" THEN "panicked" ELSE "done"
    /\ UNCHANGED <<syncVars, events, events_lock, events_poisoned, units, registered,
                   removed, counter, reader, helper, cells, now, first_write>>

\* Client::send has written the frame and returns.
SendReturned ==
    /\ sender = "done"
    /\ sender' = "idle"
    /\ UNCHANGED <<syncVars, events, events_lock, events_poisoned, units, registered,
                   removed, counter, reader, helper, cells, now, first_write>>

\* The dispatch unit takes the registry mutex: events.lock().unwrap().
UnitLock(u) ==
    /\ units[u].st = "spawned"
    /\ events_lock = 0
    /\ IF events_poisoned
       THEN /\ units' = [v \in 1..MaxUnits |->
                            IF v = u THEN IdleUnit
                            ELSE [units[v] EXCEPT !.earlier = @ \ {u}]]
            /\ UNCHANGED events_lock
       ELSE /\ units' = [v \in 1..MaxUnits |->
                            IF v = u
                            THEN [units[u] EXCEPT !.st = "iterating", !.idx = 1,
                                                  !.snapshot = events]
                            ELSE [units[v] EXCEPT !.earlier = @ \ {u}]]
            /\ events_lock' = u
    /\ UNCHANGED <<syncVars, events, events_poisoned, registered, removed, counter,
                   reader, sender, helper, cells, now, first_write>>

\* A dispatch unit that invokes every listener, whatever its variant.
UnitNextAnyKind(u) ==
    /\ units[u].st = "iterating"
    /\ IF units[u].idx > Len(events)
       THEN /\ units' = [units EXCEPT ![u] = IdleUnit]
            /\ events_lock' = 0
       ELSE /\ units' = [units EXCEPT
                    ![u].st = "callback",
                    ![u].invoked = Append(@, events[units[u].idx].id)]
            /\ UNCHANGED events_lock
    /\ UNCHANGED <<syncVars, events, events_poisoned, registered, removed, counter,
                   reader, sender, helper, cells, now, first_write>>

\* The dispatch unit looks at the next listener: it enters the callback when the
\* variant matches, and leaves the loop (dropping the guard) after the last one.
UnitNext(u) ==
    /\ units[u].st = "iterating"
    /\ IF units[u].idx > Len(events)
       THEN /\ units' = [units EXCEPT ![u] = IdleUnit]
            /\ events_lock' = 0
       ELSE /\ units' = [units EXCEPT
                    ![u].st = IF events[units[u].idx].kind = units[u].kind
                              THEN "callback" ELSE "iterating",
                    ![u].idx = IF events[units[u].idx].kind = units[u].kind
                               THEN @ ELSE @ + 1,
                    ![u].invoked = IF events[units[u].idx].kind = units[u].kind
                                   THEN Append(@, events[units[u].idx].id) ELSE @]
            /\ UNCHANGED events_lock
    /\ UNCHANGED <<syncVars, events, events_poisoned, registered, removed, counter,
                   reader, sender, helper, cells, now, first_write>>

\* The callback of the listener returns (or, calling on() or remove_callbacks()
\* on the Client it was handed, locks the registry mutex its own thread holds:
\* the call does not return, the thread blocks for ever or panics).
UnitCallback(u) ==
    /\ units[u].st = "callback"
    /\ LET l == events[units[u].idx]
           match == units[u].request_id = l.captured
       IN  CASE l.body = "nop" ->
                  /\ units' = [units EXCEPT ![u].st = "iterating", ![u].idx = @ + 1]
                  /\ UNCHANGED <<events_lock, events_poisoned, cells, first_write>>
             [] l.body = "reenter" ->
                  \/ /\ units' = [units EXCEPT ![u].st = "deadlocked"]
                     /\ UNCHANGED <<events_lock, events_poisoned, cells, first_write>>
                  \/ /\ units' = [units EXCEPT ![u] = IdleUnit]
                     /\ events_lock' = 0
                     /\ events_poisoned' = TRUE
                     /\ UNCHANGED <<cells, first_write>>
             [] l.body = "helper_ok" ->
                  /\ units' = [units EXCEPT ![u].st = "iterating", ![u].idx = @ + 1]
                  /\ cells' = IF match THEN [cells EXCEPT !.routed_reference = TRUE]
                              ELSE cells
                  /\ first_write' = IF match /\ first_write = -1 THEN now ELSE first_write
                  /\ UNCHANGED <<events_lock, events_poisoned>>
             [] l.body = "helper_err" ->
                  /\ units' = [units EXCEPT ![u].st = "iterating", ![u].idx = @ + 1]
                  /\ cells' = IF match THEN [cells EXCEPT !.wamperror = TRUE]
                              ELSE cells
                  /\ first_write' = IF match /\ first_write = -1 THEN now ELSE first_write
                  /\ UNCHANGED <<events_lock, events_poisoned>>
             [] l.body = "helper_event" ->
                  \* the callback given to events() runs when
                  \* event.subscription == the request id captured
                  /\ units' = [units EXCEPT
                        ![u].st = "iterating",
                        ![u].idx = @ + 1,
                        ![u].delivered = IF units[u].subscription = l.captured
                                         THEN Append(@, l.id) ELSE @]
                  /\ UNCHANGED <<events_lock, events_poisoned, cells, first_write>>
    /\ UNCHANGED <<syncVars, events, registered, removed, counter, reader, sender,
                   helper, now>>

\* ------------------------------------------------- blocking request helper
\* Duration::from_secs(10) of the poll loop.
TimeoutSecs == 10

\* The seconds between two readings of the clock.
Elapsed(from, to) == (to - from) * TickSecs

\* The listener variant each helper method registers for its success response.
HelperVariant(sig) == IF sig = "subscribe" THEN "Subscribed" ELSE "Unsubscribed"

\* Subscription::subscribe / Subscription::unsubscribe up to the first on():
\* two routing ids are taken and recorded, the cells are created empty, the
\* request id of the argument is captured. The request itself is not sent.
HelperCall(sig, rid) ==
    /\ helper.pc = "idle"
    /\ helper' = [helper EXCEPT
            !.pc = "on_result",
            !.variant = HelperVariant(sig),
            !.request_id = rid,
            !.routing_ids = helper.routing_ids
                            \o <<NewRoutingId(counter), NewRoutingId(counter)>>,
            !.sent = 0,
            !.polled_both = FALSE]
    /\ cells' = [routed_reference |-> FALSE, wamperror |-> FALSE]
    /\ UNCHANGED <<syncVars, events, events_lock, events_poisoned, units, registered,
                   removed, counter, reader, sender, now, first_write>>

\* self.client.on(routing_id1, Events::$variant(..)): the success listener.
HelperOnResult ==
    /\ helper.pc = "on_result"
    /\ events_lock = 0
    /\ ~events_poisoned
    /\ events' = Append(events, Listener(Len(registered) + 1,
                                         helper.routing_ids[Len(helper.routing_ids) - 1],
                                         helper.variant, "helper_ok", helper.request_id))
    /\ registered' = Append(registered, helper.routing_ids[Len(helper.routing_ids) - 1])
    /\ helper' = [helper EXCEPT !.pc = "on_error"]
    /\ UNCHANGED <<syncVars, events_lock, events_poisoned, units, removed, counter,
                   reader, sender, cells, now, first_write>>

\* self.client.on(error_routing_id, Events::Error(..)), then time_start is taken.
HelperOnError ==
    /\ helper.pc = "on_error"
    /\ events_lock = 0
    /\ ~events_poisoned
    /\ events' = Append(events, Listener(Len(registered) + 1,
                                         helper.routing_ids[Len(helper.routing_ids)],
                                         "Error", "helper_err", helper.request_id))
    /\ registered' = Append(registered, helper.routing_ids[Len(helper.routing_ids)])
    /\ helper' = [helper EXCEPT !.pc = "time_start"]
    /\ UNCHANGED <<syncVars, events_lock, events_poisoned, units, removed, counter,
                   reader, sender, cells, now, first_write>>

\* let time_start = SystemTime::now().
HelperTimeStart ==
    /\ helper.pc = "time_start"
    /\ helper' = [helper EXCEPT !.pc = "check_time", !.time_start = now]
    /\ UNCHANGED <<syncVars, events, events_lock, events_poisoned, units, registered,
                   removed, counter, reader, sender, cells, now, first_write>>

\* The head of the poll loop: the timeout is tested before any cell is read.
HelperCheckTime ==
    /\ helper.pc = "check_time"
    /\ helper' = IF Elapsed(helper.time_start, now) > TimeoutSecs
                 THEN [helper EXCEPT !.pc = "done", !.ret = "TimeOutError"]
                 ELSE [helper EXCEPT !.pc = "read_result"]
    /\ UNCHANGED <<syncVars, events, events_lock, events_poisoned, units, registered,
                   removed, counter, reader, sender, cells, now, first_write>>

\* let result = routed_reference.lock().expect(..).clone().
HelperReadResult ==
    /\ helper.pc = "read_result"
    /\ helper' = [helper EXCEPT
            !.pc = "read_error",
            !.result = cells.routed_reference,
            !.polled_both = cells.routed_reference /\ cells.wamperror]
    /\ UNCHANGED <<syncVars, events, events_lock, events_poisoned, units, registered,
                   removed, counter, reader, sender, cells, now, first_write>>

\* A poll that tests the error value before the success value.
HelperReadErrorFirst ==
    /\ helper.pc = "read_error"
    /\ helper' = IF cells.wamperror
                 THEN [helper EXCEPT !.pc = "done", !.ret = "Ok(Err)"]
                 ELSE IF helper.result
                 THEN [helper EXCEPT !.pc = "done", !.ret = "Ok(Ok)"]
                 ELSE [helper EXCEPT !.pc = "check_time"]
    /\ UNCHANGED <<syncVars, events, events_lock, events_poisoned, units, registered,
                   removed, counter, reader, sender, cells, now, first_write>>

\* let wamperror = wamperror.lock().expect(..).clone(), then the two tests: the
\* success value first, the error value second, otherwise the next iteration.
HelperReadError ==
    /\ helper.pc = "read_error"
    /\ helper' = IF helper.result
                 THEN [helper EXCEPT !.pc = "done", !.ret = "Ok(Ok)"]
                 ELSE IF cells.wamperror
                 THEN [helper EXCEPT !.pc = "done", !.ret = "Ok(Err)"]
                 ELSE [helper EXCEPT !.pc = "check_time"]
    /\ UNCHANGED <<syncVars, events, events_lock, events_poisoned, units, registered,
                   removed, counter, reader, sender, cells, now, first_write>>

\* The clock advances.
Tick ==
    /\ now < MaxTicks
    /\ now' = now + 1
    /\ UNCHANGED <<syncVars, events, events_lock, events_poisoned, units, registered,
                   removed, counter, reader, sender, helper, cells, first_write>>

NextHelper ==
    \/ \E sig \in {"subscribe", "unsubscribe"} : \E rid \in RequestIds :
        HelperCall(sig, rid)
    \/ HelperOnResult
    \/ HelperOnError
    \/ HelperTimeStart
    \/ HelperCheckTime
    \/ HelperReadResult
    \/ HelperReadError
    \/ Tick
    \/ \E kind \in {"Subscribed", "Unsubscribed", "Error"} : \E rid \in RequestIds :
        ReadThenRunEvent(kind, rid, 0)
    \/ \E u \in 1..MaxUnits : UnitLock(u)
    \/ \E u \in 1..MaxUnits : UnitNext(u)
    \/ \E u \in 1..MaxUnits : UnitCallback(u)

\* An events() that registers its listener whether or not a confirmation is held.
EventsReturnAlwaysOk(subscribed) == "Ok"

\* Subscription::events: the value returned, by the confirmation held.
EventsReturn(subscribed) ==
    IF subscribed # NoSubscribed THEN "Ok" ELSE "NoSubscription"

\* The user of the helper assigns its public field subscribed.
SetSubscribed(subscribed) ==
    /\ helper.pc \in {"idle", "done"}
    /\ helper.events_ret = "-"
    /\ helper.subscribed # subscribed
    /\ helper' = [helper EXCEPT !.subscribed = subscribed]
    /\ UNCHANGED <<syncVars, events, events_lock, events_poisoned, units, registered,
                   removed, counter, reader, sender, cells, now, first_write>>

\* Subscription::events(callback): with a confirmation held, a routing id is
\* taken and recorded and the Event listener, which captures the request id of
\* the confirmation, is registered; without one NoSubscription is returned.
HelperEvents ==
    /\ helper.pc \in {"idle", "done"}
    /\ helper.events_ret = "-"
    /\ IF EventsReturn(helper.subscribed) = "Ok"
       THEN /\ events_lock = 0
            /\ ~events_poisoned
            /\ Len(registered) < MaxListeners
            /\ events' = Append(events, Listener(Len(registered) + 1,
                                                 NewRoutingId(counter), "Event",
                                                 "helper_event",
                                                 helper.subscribed.request_id))
            /\ registered' = Append(registered, NewRoutingId(counter))
            /\ helper' = [helper EXCEPT
                    !.routing_ids = Append(@, NewRoutingId(counter)),
                    !.events_ret = "Ok",
                    !.listening = Append(@, [id |-> Len(registered) + 1,
                                             subscribed |-> helper.subscribed])]
       ELSE /\ helper' = [helper EXCEPT !.events_ret = "NoSubscription"]
            /\ UNCHANGED <<events, registered>>
    /\ UNCHANGED <<syncVars, events_lock, events_poisoned, units, removed, counter,
                   reader, sender, cells, now, first_write>>

\* The caller of events() takes the value returned.
HelperEventsReturned ==
    /\ helper.events_ret # "-"
    /\ helper' = [helper EXCEPT !.events_ret = "-"]
    /\ UNCHANGED <<syncVars, events, events_lock, events_poisoned, units, registered,
                   removed, counter, reader, sender, cells, now, first_write>>

\* The confirmations the field subscribed is given, and None.
SubscribedValues ==
    {NoSubscribed}
    \cup {[request_id |-> q, subscription |-> sub] :
            q \in RequestIds, sub \in SubscriptionIds}

NextEvents ==
    \/ \E subscribed \in SubscribedValues : SetSubscribed(subscribed)
    \/ HelperEvents
    \/ HelperEventsReturned
    \/ \E sub \in SubscriptionIds : ReadThenRunEvent("Event", 0, sub)
    \/ \E u \in 1..MaxUnits : UnitLock(u)
    \/ \E u \in 1..MaxUnits : UnitNext(u)
    \/ \E u \in 1..MaxUnits : UnitCallback(u)

\* The kinds of listener and of inbound message the broadcast model draws from.
ModelKinds == {"Event", "Error"}

NextBroadcast ==
    \/ \E routing \in 1..MaxRouting : \E kind \in ModelKinds :
        \E body \in {"nop", "reenter"} : On(routing, kind, body)
    \/ \E ids \in SUBSET (1..MaxRouting) : RemoveCallbacks(ids)
    \/ \E kind \in ModelKinds \cup {"Welcome", "Hello"} :
        ReadThenRunEvent(kind, 0, 0)
    \/ EventLoopAgain
    \/ \E u \in 1..MaxUnits : UnitLock(u)
    \/ \E u \in 1..MaxUnits : UnitNext(u)
    \/ \E u \in 1..MaxUnits : UnitCallback(u)

\* ------------------------------------------------- single-threaded engine
\* A lookup of Errors that searches registrations whatever the event tag.
ErrorFindRegistrations(event) ==
    IF event = "Invocation" THEN "none" ELSE "registrations"

\* The list an Error is looked up in, by its event tag (get_message_context).
\* An Invocation error is returned without a lookup.
ErrorFindList(event) ==
    CASE event = "Call" -> "calls"
      [] event = "Unsubscribe" -> "unsubscriptions"
      [] event = "Subscribe" -> "subscriptions"
      [] event = "Publish" -> "publications"
      [] event = "Register" -> "registrations"
      [] event = "Unregister" -> "unregistrations"
      [] event = "Invocation" -> "none"
      [] event = "Cancel" -> "cancelations"

\* The list a success response is looked up in (find_<category>).
ResponseFindList(type) ==
    CASE type = "Registered" -> "registrations"
      [] type = "Unregistered" -> "unregistrations"
      [] type = "Subscribed" -> "subscriptions"
      [] type = "Unsubscribed" -> "unsubscriptions"
      [] type = "Published" -> "publications"
      [] type = "Result" -> "calls"
      [] type = "Invocation" -> "invocations"
      [] type = "Interrupt" -> "cancelations"

\* The correlation lookup of get_message_context: the pending entry whose
\* callback the message is for, NoCb when there is none.
Correlate(ctx, m) ==
    IF m.type = "Error"
    THEN LET list == ErrorFindList(m.event)
             i == IF list = "none" THEN 0 ELSE FindByRequestId(ctx, list, m.request_id)
         IN  IF i = 0 THEN NoCb ELSE Cb(list, i, FALSE)
    ELSE IF m.type = "Event"
    THEN LET i == FindEvent(ctx, m.subscription)
         IN  IF i = 0 THEN NoCb ELSE Cb("events", i, TRUE)
    ELSE IF m.type \in ResponseTypes \cup {"Subscribed"}
    THEN LET list == ResponseFindList(m.type)
             i == FindByRequestId(ctx, list, m.request_id)
         IN  IF i = 0 THEN NoCb ELSE Cb(list, i, TRUE)
    ELSE NoCb

\* What a callback does with the Context it is handed: nothing, one send on it
\* or on a Context it created with Context::new(None), or one push on it. The
\* body returns the Context it used.
CallbackBodies ==
    {[detach |-> FALSE, method |-> "none", req |-> Entry(0, 0)]}
    \cup {[detach |-> d, method |-> "send", req |-> Entry(0, 0)] : d \in BOOLEAN}
    \cup UNION {{[detach |-> FALSE, method |-> m, req |-> a] : a \in MethodArgs(m)} :
                m \in Methods}

\* The Context get_message_context hands to a callback:
\* Context::new(Some(Arc::clone(&self.socket))).
HandedContext == NewContext(TRUE)

\* callback(Context::new(Some(socket)), value): the Context the body returns and
\* the frames it wrote meanwhile. A failed send is ignored by the body.
RunCallback(body, transport_ok) ==
    LET c == IF body.detach THEN NewContext(FALSE) ELSE HandedContext
    IN  IF body.method = "none"
        THEN [ctx |-> c, out |-> <<>>, res |-> "Ok"]
        ELSE IF body.method = "send"
        THEN Send(c, Msg("Yield", 0, 0, "-"), transport_ok)
        ELSE Push(c, body.method, body.req, transport_ok)

\* A dispatch that returns every message but Abort and Extension to its caller.
PlainReturnAccepting(m) ==
    IF m.type = "Abort" THEN Err("Abort", m)
    ELSE IF m.type = "Extension" THEN Panic
    ELSE OkSome(m)

\* Client::get_message_context on Some(m): the value returned when no callback
\* is invoked.
PlainReturn(m) ==
    IF m.type = "Abort" THEN Err("Abort", m)
    ELSE IF m.type = "Extension" THEN Panic
    ELSE IF m.type \in InvalidTypes THEN Err("InvalidFrameReceived", m)
    ELSE OkSome(m)

\* A read for which a Binary frame is no message, like Ping, Pong and Close.
ReadReturnBinaryNone(f) ==
    CASE f = "TransportError" -> Panic
      [] f = "Undecodable" -> Err("Decode", NoMsg)
      [] f \in {"Ping", "Pong", "Close", "Binary"} -> OkNone
      [] f = "Frame" -> Err("Frame", NoMsg)

\* Client::read: what a frame other than a decodable Text frame returns.
ReadReturn(f) ==
    CASE f = "TransportError" -> Panic
      [] f = "Undecodable" -> Err("Decode", NoMsg)
      [] f \in {"Ping", "Pong", "Close"} -> OkNone
      [] f = "Binary" -> Err("Binary", NoMsg)
      [] f = "Frame" -> Err("Frame", NoMsg)

SyncNew ==
    /\ context = NewContext(TRUE)
    /\ pc = "idle"
    /\ op = "connect"
    /\ message = NoMsg
    /\ result = NoResult
    /\ fired = NoCb
    /\ sent = <<>>
    /\ frame = "-"
    /\ dropped = 0
    /\ detached = <<>>
    /\ handed = NoHanded

InitSync == SyncNew /\ ThreadsNew

\* client_context_link: Client::register, ..., Client::cancel on the live Context.
ClientPush(method, req) ==
    /\ pc = "idle"
    /\ TotalEntries(context) < MaxEntries
    /\ \E transport_ok \in BOOLEAN :
        LET p == Push(context, method, req, transport_ok)
        IN  /\ context' = p.ctx
            /\ sent' = p.out
            /\ result' = IF p.res = "Ok" THEN OkNone ELSE Err("Transport", NoMsg)
    /\ pc' = "returned"
    /\ op' = method
    /\ fired' = NoCb
    /\ message' = NoMsg
    /\ frame' = "-"
    /\ dropped' = 0
    /\ UNCHANGED <<detached, handed, threadVars>>

\* One turn of Client::event_loop on a frame that is not a decodable Text frame:
\* read() returns None or an error (or the read fails) and read_contexts is not
\* called.
TurnNoMessage(frame_read) ==
    /\ pc = "idle"
    /\ frame_read # "Text"
    /\ op' = "event_loop"
    /\ message' = NoMsg
    /\ result' = ReadReturn(frame_read)
    /\ pc' = IF ReadReturn(frame_read) = Panic THEN "panicked" ELSE "returned"
    /\ fired' = NoCb
    /\ sent' = <<>>
    /\ frame' = frame_read
    /\ dropped' = 0
    /\ UNCHANGED <<context, detached, handed, threadVars>>

\* One turn of Client::event_loop on a Text frame decoded to m: read(), then
\* read_contexts(Some(m)): flush the outbound queue, correlate, invoke the
\* callback, merge the Context it returns.
Turn(m) ==
    /\ pc = "idle"
    /\ frame' = "Text"
    /\ dropped' = 0
    /\ UNCHANGED <<detached, threadVars>>
    /\ op' = "event_loop"
    /\ message' = m
    /\ \E transport_ok \in BOOLEAN :
        IF context.messages # <<>> /\ ~transport_ok
        THEN /\ pc' = "panicked"
             /\ result' = Panic
             /\ fired' = NoCb
             /\ sent' = <<>>
             /\ handed' = NoHanded
             /\ UNCHANGED context
        ELSE LET flushed == [context EXCEPT !.messages = <<>>]
                 cb == Correlate(flushed, m)
             IN  \/ /\ cb # NoCb
                    /\ \E body \in CallbackBodies :
                        /\ body.method \in Methods => TotalEntries(context) < MaxEntries
                        /\ LET c == RunCallback(body, transport_ok)
                           IN  /\ context' = Extend(flushed, c.ctx)
                               /\ sent' = context.messages \o c.out
                               /\ handed' = Handed(HandedContext, c.out)
                    /\ fired' = cb
                    /\ result' = OkSome(m)
                    /\ pc' = "returned"
                 \/ /\ cb = NoCb
                    /\ m.type \in SessionTypes
                    \* on_welcome / on_challenge / on_goodbye holds a callback
                    /\ \E body \in CallbackBodies :
                        /\ body.method \in Methods => TotalEntries(context) < MaxEntries
                        /\ LET c == RunCallback(body, transport_ok)
                           IN  /\ context' = Extend(flushed, c.ctx)
                               /\ sent' = context.messages \o c.out
                               /\ handed' = Handed(HandedContext, c.out)
                    /\ fired' = Cb(m.type, 0, TRUE)
                    /\ result' = OkSome(m)
                    /\ pc' = "returned"
                 \/ /\ cb = NoCb
                    /\ context' = flushed
                    /\ sent' = context.messages
                    /\ handed' = NoHanded
                    /\ fired' = NoCb
                    /\ result' = PlainReturn(m)
                    /\ pc' = IF PlainReturn(m) = Panic THEN "panicked" ELSE "returned"

\* The caller drops the value returned and goes on (event_loop's next turn).
Continue ==
    /\ pc = "returned"
    /\ pc' = "idle"
    /\ op' = "-"
    /\ message' = NoMsg
    /\ result' = NoResult
    /\ fired' = NoCb
    /\ sent' = <<>>
    /\ frame' = "-"
    /\ dropped' = 0
    /\ handed' = NoHanded
    /\ UNCHANGED <<context, detached, threadVars>>

\* The list handle_and_empty_contexts retains on an Error, by its event tag.
ErrorRetainList(event) ==
    CASE event = "Call" -> "none"
      [] event = "Unsubscribe" -> "unsubscriptions"
      [] event = "Subscribe" -> "subscriptions"
      [] event = "Publish" -> "publications"
      [] event = "Register" -> "registrations"
      [] event = "Unregister" -> "unregistrations"
      [] event = "Invocation" -> "invocations"
      [] event = "Cancel" -> "invocations"

\* A handle_and_empty_contexts whose cascade leaves the events list alone.
HandleAndEmptyKeepsEvents(ctx, m) ==
    IF m.type = "Error"
    THEN LET keep(e) == e.request_id = m.request_id
             list == ErrorRetainList(m.event)
         IN  IF list = "none" THEN ctx ELSE [ctx EXCEPT ![list] = Retain(@, keep)]
    ELSE IF m.type = "Unsubscribed"
    THEN LET u == FindByRequestId(ctx, "unsubscriptions", m.request_id)
         IN  IF u = 0 THEN ctx
             ELSE LET subscription == ctx.unsubscriptions[u].subscription
                      ev == FindEvent(ctx, subscription)
                  IN  IF ev = 0 THEN ctx
                      ELSE LET request_id == ctx.events[ev].request_id
                               otherSub(e) == e.subscription # subscription
                               otherReq(e) == e.request_id # request_id
                           IN  [ctx EXCEPT
                                   !.unsubscriptions = Retain(@, otherSub),
                                   !.subscriptions = Retain(@, otherReq)]
    ELSE ctx

\* Client::handle_and_empty_contexts(m) as a function of the Context: the
\* Context afterwards.
HandleAndEmpty(ctx, m) ==
    IF m.type = "Error"
    THEN LET keep(e) == e.request_id = m.request_id
             list == ErrorRetainList(m.event)
         IN  IF list = "none" THEN ctx ELSE [ctx EXCEPT ![list] = Retain(@, keep)]
    ELSE IF m.type = "Unsubscribed"
    THEN LET u == FindByRequestId(ctx, "unsubscriptions", m.request_id)
         IN  IF u = 0 THEN ctx
             ELSE LET subscription == ctx.unsubscriptions[u].subscription
                      ev == FindEvent(ctx, subscription)
                  IN  IF ev = 0 THEN ctx
                      ELSE LET request_id == ctx.events[ev].request_id
                               otherSub(e) == e.subscription # subscription
                               otherReq(e) == e.request_id # request_id
                           IN  [ctx EXCEPT
                                   !.unsubscriptions = Retain(@, otherSub),
                                   !.events = Retain(@, otherSub),
                                   !.subscriptions = Retain(@, otherReq)]
    ELSE ctx

\* The value handle_and_empty_contexts returns.
HandleAndEmptyReturn(m) ==
    IF m.type = "Error"
    THEN IF m.event = "Call" THEN OkNone ELSE OkSome(m)
    ELSE IF m.type = "Unsubscribed" THEN OkSome(m)
    ELSE OkNone

\* Client::handle_and_empty_contexts(m), called by the user of the Client.
HandleAndEmptyContexts(m) ==
    /\ pc = "idle"
    /\ pc' = "returned"
    /\ op' = "handle_and_empty_contexts"
    /\ message' = m
    /\ fired' = NoCb
    /\ sent' = <<>>
    /\ result' = HandleAndEmptyReturn(m)
    /\ context' = HandleAndEmpty(context, m)
    /\ frame' = "-"
    /\ dropped' = TotalEntries(context) - TotalEntries(HandleAndEmpty(context, m))
    /\ UNCHANGED <<detached, handed, threadVars>>

\* The messages handle_and_empty_contexts is called with: those it acts on, and
\* Registered for all the others (which it returns None for).
HandleInputs == {m \in Messages : m.type \in {"Error", "Unsubscribed", "Registered"}}

NextSync ==
    \/ \E method \in Methods : \E req \in MethodArgs(method) : ClientPush(method, req)
    \/ \E f \in Frames : TurnNoMessage(f)
    \/ \E m \in Messages : Turn(m)
    \/ Continue
    \/ \E m \in HandleInputs : HandleAndEmptyContexts(m)

Spec == InitSync /\ [][NextSync]_vars

\* ------------------------------------------------ a Context used on its own
\* A Context created with Context::new(None) or Context::new(Some(socket)) and
\* driven through its public methods.
InitContext ==
    /\ context \in {NewContext(TRUE), NewContext(FALSE)}
    /\ pc = "idle"
    /\ op = "new"
    /\ message = NoMsg
    /\ result = NoResult
    /\ fired = NoCb
    /\ sent = <<>>
    /\ frame = "-"
    /\ dropped = 0
    /\ detached = <<>>
    /\ handed = NoHanded
    /\ ThreadsNew

\* The messages handed to Context::send.
SendInputs ==
    {Msg("Hello", 0, 0, "-")} \cup {Msg("Yield", r, 0, "-") : r \in RequestIds}

\* context.send(m).
ContextSend(m) ==
    /\ pc = "idle"
    /\ Len(context.messages) < MaxQueue
    /\ \E transport_ok \in BOOLEAN :
        LET s == Send(context, m, transport_ok)
        IN  /\ context' = s.ctx
            /\ sent' = s.out
            /\ result' = IF s.res = "Ok" THEN OkNone ELSE Err("Transport", NoMsg)
    /\ pc' = "returned"
    /\ op' = "send"
    /\ message' = m
    /\ fired' = NoCb
    /\ frame' = "-"
    /\ dropped' = 0
    /\ UNCHANGED <<detached, handed, threadVars>>

\* context.register(..), ..., context.cancel(..).
ContextPush(method, req) ==
    /\ pc = "idle"
    /\ Len(context.messages) < MaxQueue
    /\ TotalEntries(context) < MaxCtxEntries
    /\ \E transport_ok \in BOOLEAN :
        LET p == Push(context, method, req, transport_ok)
        IN  /\ context' = p.ctx
            /\ sent' = p.out
            /\ result' = IF p.res = "Ok" THEN OkNone ELSE Err("Transport", NoMsg)
    /\ pc' = "returned"
    /\ op' = method
    /\ message' = Msg(MethodType(method), req.request_id, req.subscription, "-")
    /\ fired' = NoCb
    /\ frame' = "-"
    /\ dropped' = 0
    /\ UNCHANGED <<detached, handed, threadVars>>

NextContext ==
    \/ \E m \in SendInputs : ContextSend(m)
    \/ \E method \in Methods : \E req \in MethodArgs(method) : ContextPush(method, req)
    \/ Continue

SpecContext == InitContext /\ [][NextContext]_vars

\* ------------------------------------------------------- merging Contexts
\* Detached Contexts are created, filled through the push methods, merged into
\* one another and merged, oldest first, into the live Context of the Client.
AllEntries == TotalEntries(context) + SumEntries(detached)

AllQueued == Len(context.messages) + SumQueued(detached)

\* Context::new(None): one more detached Context.
NewDetached ==
    /\ Len(detached) < MaxParts
    /\ detached' = Append(detached, NewContext(FALSE))
    /\ op' = "push"
    /\ UNCHANGED <<context, pc, message, result, fired, sent, frame, dropped, handed,
                   threadVars>>

\* A push method on the detached Context created last.
DetachedPush(method, req) ==
    /\ detached # <<>>
    /\ AllEntries < MaxEntries
    /\ AllQueued < MaxEntries
    /\ detached' = [detached EXCEPT ![Len(detached)] = Push(@, method, req, TRUE).ctx]
    /\ op' = "push"
    /\ UNCHANGED <<context, pc, message, result, fired, sent, frame, dropped, handed,
                   threadVars>>

\* a.extend(b) on two detached Contexts, b the one created right after a.
ExtendDetached(i) ==
    /\ i \in 1..(Len(detached) - 1)
    /\ detached' = SubSeq(detached, 1, i - 1)
                    \o <<Extend(detached[i], detached[i + 1])>>
                    \o SubSeq(detached, i + 2, Len(detached))
    /\ op' = "extend_detached"
    /\ UNCHANGED <<context, pc, message, result, fired, sent, frame, dropped, handed,
                   threadVars>>

\* Client::extend_context: self.context.extend(context) with the oldest
\* detached Context.
ExtendContext ==
    /\ detached # <<>>
    /\ context' = Extend(context, Head(detached))
    /\ detached' = Tail(detached)
    /\ op' = "extend"
    /\ UNCHANGED <<pc, message, result, fired, sent, frame, dropped, handed, threadVars>>

\* The push methods the merged Contexts are filled with: the first list extend
\* appends, the list filled without a send, two lists further down, and the
\* list of cancel.
MergeMethods == {"register", "event", "subscribe", "call", "cancel"}

NextMerge ==
    \/ NewDetached
    \/ \E method \in MergeMethods : \E r \in RequestIds :
        DetachedPush(method, Entry(r, 0))
    \/ \E i \in 1..MaxParts : ExtendDetached(i)
    \/ ExtendContext

InitMerge == SyncNew /\ ThreadsNew

SpecMerge == InitMerge /\ [][NextMerge]_vars

\* The broadcast engine with threads that call on() and remove_callbacks().
InitBroadcast == SyncNew /\ ThreadsNew

SpecBroadcast == InitBroadcast /\ [][NextBroadcast]_vars

\* The broadcast engine with one thread inside a call of the helper.
InitHelper == SyncNew /\ ThreadsNew

SpecHelper == InitHelper /\ [][NextHelper]_vars

\* The broadcast engine with a thread that calls events() on the helper.
InitEvents == SyncNew /\ ThreadsNew

SpecEvents == InitEvents /\ [][NextEvents]_vars

\* The broadcast engine under a scheduler that lets every dispatch unit that
\* can take the registry or look at its next listener do so; how long a
\* callback runs is up to the callback.
SpecBroadcastFair ==
    /\ InitBroadcast
    /\ [][NextBroadcast]_vars
    /\ \A u \in 1..MaxUnits : WF_vars(UnitLock(u)) /\ WF_vars(UnitNext(u))

\* The broadcast engine with its read loop on every kind of frame and a thread
\* that sends on the channel.
NextChannel ==
    \/ On(1, "Event", "nop")
    \/ \E kind \in {"Event", "Hello"} : ReadThenRunEvent(kind, 0, 0)
    \/ \E f \in Frames \ {"Text"} : ReadNoMessage(f)
    \/ EventLoopAgain
    \/ ClientSend
    \/ SendAcquire
    \/ SendReturned
    \/ \E u \in 1..MaxUnits : UnitLock(u)
    \/ \E u \in 1..MaxUnits : UnitNext(u)
    \/ \E u \in 1..MaxUnits : UnitCallback(u)

InitChannel == SyncNew /\ ThreadsNew

SpecChannel == InitChannel /\ [][NextChannel]_vars

\* Both engines side by side, each with pending entries or listeners, fed the
\* messages a client must not receive.
NextInvalid ==
    \/ \E r \in RequestIds : ClientPush("register", Entry(r, 0))
    \/ \E m \in {x \in Messages : x.type \in InvalidTypes} : Turn(m)
    \/ Continue
    \/ \E kind \in ModelKinds : On(1, kind, "nop")
    \/ \E kind \in {"Event"} \cup InvalidTypes : ReadThenRunEvent(kind, 0, 0)
    \/ EventLoopAgain
    \/ \E u \in 1..MaxUnits : UnitLock(u)
    \/ \E u \in 1..MaxUnits : UnitNext(u)
    \/ \E u \in 1..MaxUnits : UnitCallback(u)

InitInvalid == SyncNew /\ ThreadsNew

SpecInvalid == InitInvalid /\ [][NextInvalid]_vars

\* ------------------------------------------------------------------ claims
\* The correlation lists of a Context: everything but the socket and the queue.
CorrelationLists(ctx) == [l \in Lists |-> ctx[l]]

HasRequestId(seq, request_id) == \E i \in 1..Len(seq) : seq[i].request_id = request_id

HasSubscription(seq, subscription) ==
    \E i \in 1..Len(seq) : seq[i].subscription = subscription

\* The latest step was a turn of the event loop that dispatched a message of
\* type t to the callback of a pending entry.
Dispatched(t) == op = "event_loop" /\ message.type = t /\ fired # NoCb

\* C1 (as claimed): once the engine has dispatched Registered(r) to the callback
\* of the pending Register r, registrations holds no entry with request id r.
C1_RegisteredRemovesEntry ==
    Dispatched("Registered") =>
        ~HasRequestId(context.registrations, message.request_id)

\* C2 (as claimed): once the engine has dispatched Error(event=Register, r) to
\* the callback of the pending Register r, registrations holds no entry with
\* request id r.
C2_RegisterErrorRemovesEntry ==
    (Dispatched("Error") /\ message.event = "Register") =>
        ~HasRequestId(context.registrations, message.request_id)

\* C3: a turn on Event(subscription=s) invokes the callback of an events entry
\* exactly when an entry for s is pending, the entry invoked is one registered
\* for s, and with no entry for s no callback runs and no correlation list
\* changes.
C3_EventDelivery ==
    [][(op' = "event_loop" /\ message'.type = "Event" /\ result'.tag # "Panic") =>
        /\ (fired' # NoCb) <=> HasSubscription(context.events, message'.subscription)
        /\ fired' # NoCb =>
            /\ fired'.list = "events"
            /\ fired'.idx \in 1..Len(context.events)
            /\ context.events[fired'.idx].subscription = message'.subscription
        /\ fired' = NoCb => CorrelationLists(context') = CorrelationLists(context)
      ]_vars

\* C3 witness: with the Subscribe entry and the event entry of one subscription
\* pending, an Event for it was delivered to that event entry.
C3_Witness ==
    /\ Dispatched("Event")
    /\ fired.list = "events"
    /\ context.events[fired.idx].subscription = message.subscription
    /\ HasRequestId(context.subscriptions, context.events[fired.idx].request_id)

\* C4 (as claimed): with a Subscribe entry, an Event entry and an Unsubscribe
\* entry of one subscription pending, once the engine has processed the
\* Unsubscribed answering that Unsubscribe none of the three lists holds an
\* entry of the subscription.
C4_UnsubscribedCascade ==
    [][(op' = "event_loop" /\ message'.type = "Unsubscribed"
        /\ fired'.list = "unsubscriptions") =>
        LET s == context.unsubscriptions[fired'.idx].subscription
            ev == {i \in 1..Len(context.events) : context.events[i].subscription = s}
        IN  (ev # {} /\ \E i \in ev :
                HasRequestId(context.subscriptions, context.events[i].request_id)) =>
            /\ ~HasSubscription(context'.unsubscriptions, s)
            /\ ~HasSubscription(context'.events, s)
            /\ \A i \in ev :
                ~HasRequestId(context'.subscriptions, context.events[i].request_id)
      ]_vars

\* C5 (as claimed): the helper never returns the timeout error when one of its
\* result cells was populated less than 10 seconds after the wait began.
C5_NoTimeoutWhenPopulated ==
    helper.ret = "TimeOutError" =>
        ~(first_write # -1 /\ Elapsed(helper.time_start, first_write) < TimeoutSecs)

\* The listeners in the registry.
RegistryIds == {events[i].id : i \in 1..Len(events)}

\* C6: the registry holds, once each and under the routing id it was registered
\* with, exactly the listeners on() has added and no completed remove_callbacks
\* was asked to remove; and the listener a dispatch unit is invoking has not been
\* removed (so none is invoked for a message dispatched after its removal).
C6_RegistryExact ==
    /\ RegistryIds = (1..Len(registered)) \ removed
    /\ Cardinality(RegistryIds) = Len(events)
    /\ \A i \in 1..Len(events) : events[i].routing = registered[events[i].id]
    /\ \A u \in 1..MaxUnits :
        units[u].st = "callback" =>
            /\ units[u].idx \in 1..Len(events)
            /\ events[units[u].idx].id \notin removed

\* C6 witness: after a removal that took one listener and left another, a
\* dispatch unit is invoking the one that was left.
C6_Witness ==
    /\ removed # {}
    /\ \E u \in 1..MaxUnits :
        /\ units[u].st = "callback"
        /\ events[units[u].idx].id \in (1..Len(registered)) \ removed

\* C7 (as claimed): when the event loop issues a read, the outbound queue of the
\* live Context is empty: what the previous turn queued has been transmitted.
C7_QueueFlushedBeforeRead ==
    [][op' = "event_loop" => context.messages = <<>>]_vars

\* The list a message belongs to by its category: an Error by its event tag, a
\* response by its type.
CategoryList(m) ==
    IF m.type = "Error"
    THEN CASE m.event = "Call" -> "calls"
           [] m.event = "Unsubscribe" -> "unsubscriptions"
           [] m.event = "Subscribe" -> "subscriptions"
           [] m.event = "Publish" -> "publications"
           [] m.event = "Register" -> "registrations"
           [] m.event = "Unregister" -> "unregistrations"
           [] m.event = "Invocation" -> "invocations"
           [] m.event = "Cancel" -> "cancelations"
    ELSE IF m.type = "Event" THEN "events"
    ELSE ResponseFindList(m.type)

\* No pending entry matches m: by subscription for an Event, by request id else.
Unmatched(ctx, m) ==
    IF m.type = "Event"
    THEN ~HasSubscription(ctx.events, m.subscription)
    ELSE ~HasRequestId(ctx[CategoryList(m)], m.request_id)

\* C8: a turn that dispatches a success response, an Event or an Error no
\* pending entry matches returns the message, invokes no callback and leaves
\* every correlation list as it was.
C8_UnmatchedNoEffect ==
    [][(/\ op' = "event_loop"
        /\ message'.type \in ResponseTypes \cup {"Subscribed", "Event", "Error"}
        /\ result'.tag # "Panic"
        /\ Unmatched(context, message')) =>
        /\ result' = OkSome(message')
        /\ fired' = NoCb
        /\ CorrelationLists(context') = CorrelationLists(context)
      ]_vars

\* C8 witness: a Registered no entry matches was returned while another
\* Register is pending.
C8_Witness ==
    /\ op = "event_loop"
    /\ message.type = "Registered"
    /\ context.registrations # <<>>
    /\ ~HasRequestId(context.registrations, message.request_id)
    /\ result = OkSome(message)
    /\ fired = NoCb

\* C9 (as claimed): no two entries of one correlation list carry the same
\* request identifier.
C9_UniqueRequestIds ==
    \A l \in Lists \ {"events", "invocations"} :
        \A i, j \in 1..Len(context[l]) :
            context[l][i].request_id = context[l][j].request_id => i = j

\* C10: Context::send on an attached Context writes the message (when the
\* channel takes it) and leaves the queue alone; on a detached Context it writes
\* nothing, appends the message at the end of the queue and returns Ok. The
\* correlation lists are untouched.
C10_Send ==
    [][op' = "send" =>
        /\ CorrelationLists(context') = CorrelationLists(context)
        /\ context'.socket = context.socket
        /\ IF context.socket
           THEN /\ context'.messages = context.messages
                /\ result'.tag = "Ok" => sent' = <<message'>>
                /\ result'.tag # "Ok" => sent' = <<>>
           ELSE /\ sent' = <<>>
                /\ context'.messages = Append(context.messages, message')
                /\ result' = OkNone
      ]_vars

\* C10 witness: a detached Context whose queue already held a message has
\* queued a second one behind it.
C10_Witness ==
    /\ op = "send"
    /\ ~context.socket
    /\ Len(context.messages) = 2
    /\ context.messages[2] = message
    /\ context.messages[1] # message
    /\ result = OkNone

\* The push methods that send their request (all but event).
SendingMethods == Methods \ {"event"}

\* C11: a push method that sends leaves every list but its own alone; when the
\* send succeeds it appends exactly the pair of the request at the end of its
\* list, the request having been written (attached) or queued (detached); when
\* the send fails it returns the error with every list and the queue unchanged.
\* On a detached Context the call succeeds, queues exactly the one message and
\* appends exactly the one entry.
C11_PushAfterSend ==
    [][op' \in SendingMethods =>
        LET list == MethodList(op')
            entry == Entry(message'.request_id, message'.subscription)
        IN  /\ message'.type = MethodType(op')
            /\ context'.socket = context.socket
            /\ \A l \in Lists \ {list} : context'[l] = context[l]
            /\ IF result'.tag = "Ok"
               THEN /\ context'[list] = Append(context[list], entry)
                    /\ IF context.socket
                       THEN /\ sent' = <<message'>>
                            /\ context'.messages = context.messages
                       ELSE /\ sent' = <<>>
                            /\ context'.messages = Append(context.messages, message')
               ELSE /\ context' = context
                    /\ sent' = <<>>
            /\ ~context.socket => result'.tag = "Ok"
      ]_vars

\* C11 witness: on a Context that already holds an entry, a push method has
\* returned the error of a failed send.
C11_Witness ==
    /\ op \in SendingMethods
    /\ result.tag = "Err"
    /\ context.socket
    /\ TotalEntries(context) = 1

\* C15: events() called while the helper holds no confirmation returns the
\* NoSubscription error; the registry, the routing ids the helper recorded and
\* the shared counter are as before the call.
C15_EventsWithoutSubscription ==
    [][(helper.events_ret = "-" /\ helper'.events_ret # "-"
        /\ helper.subscribed = NoSubscribed) =>
        /\ helper'.events_ret = "NoSubscription"
        /\ events' = events
        /\ registered' = registered
        /\ helper'.routing_ids = helper.routing_ids
        /\ counter' = counter
      ]_vars

\* C15 witness: events() has failed with NoSubscription on a helper that had
\* registered a listener earlier, while it held a confirmation.
C15_Witness ==
    /\ helper.events_ret = "NoSubscription"
    /\ helper.subscribed = NoSubscribed
    /\ Len(events) >= 1
    /\ Len(helper.routing_ids) >= 1

\* C14: a turn of the event loop that reads a Binary frame returns the error of
\* the unsupported encoding: no message is decoded, no callback is invoked, the
\* Context is unchanged and nothing is written.
C14_BinaryFrameIsError ==
    [][frame' = "Binary" =>
        /\ result' = Err("Binary", NoMsg)
        /\ message' = NoMsg
        /\ fired' = NoCb
        /\ context' = context
        /\ sent' = <<>>
      ]_vars

\* C14 witness: a Client with a pending entry and a queued message has read a
\* Binary frame and returned the error.
C14_Witness ==
    /\ frame = "Binary"
    /\ result.tag = "Err"
    /\ TotalEntries(context) >= 1
    /\ context.messages # <<>>

\* The step is a call of handle_and_empty_contexts with a message of type t.
HandleCalled(t) == op' = "handle_and_empty_contexts" /\ message'.type = t

\* The entries of seq whose request id is not r.
WithoutRequestId(seq, r) ==
    LET other(e) == e.request_id # r IN SelectSeq(seq, other)

\* The entries of seq whose subscription is not sub.
WithoutSubscription(seq, sub) ==
    LET other(e) == e.subscription # sub IN SelectSeq(seq, other)

\* C16 (as claimed): handle_and_empty_contexts on Error(event=K, request_id=r),
\* K one of Register, Unregister, Subscribe, Unsubscribe, Publish, leaves in the
\* list of K exactly the entries whose request id is not r.
C16_ErrorRemovesMatching ==
    [][(HandleCalled("Error")
        /\ message'.event \in {"Register", "Unregister", "Subscribe", "Unsubscribe",
                               "Publish"}) =>
        context'[CategoryList(message')]
            = WithoutRequestId(context[CategoryList(message')], message'.request_id)
      ]_vars

\* C17 (as claimed): handle_and_empty_contexts on Error(event=K) leaves every
\* list but that of category K (cancelations for Cancel) unchanged.
C17_ErrorTouchesOwnList ==
    [][HandleCalled("Error") =>
        \A l \in Lists \ {CategoryList(message')} : context'[l] = context[l]
      ]_vars

\* C18 (as claimed): handle_and_empty_contexts on an Error whose event is Call
\* or Invocation leaves the calls list and the invocations list as they were,
\* and a turn of the event loop on such an Error removes nothing from them.
C18_CallInvocationErrorKept ==
    [][(message'.type = "Error" /\ message'.event \in {"Call", "Invocation"}) =>
        /\ op' = "handle_and_empty_contexts" =>
            /\ context'.calls = context.calls
            /\ context'.invocations = context.invocations
        /\ op' = "event_loop" =>
            /\ SubSeq(context'.calls, 1, Len(context.calls)) = context.calls
            /\ SubSeq(context'.invocations, 1, Len(context.invocations))
                   = context.invocations
      ]_vars

\* The subscription of the Unsubscribe entry the lookup by request id r finds
\* (the first one), 0 when there is none.
UnsubscribeFound(ctx, r) ==
    IF HasRequestId(ctx.unsubscriptions, r)
    THEN LET i == CHOOSE i \in 1..Len(ctx.unsubscriptions) :
                    /\ ctx.unsubscriptions[i].request_id = r
                    /\ \A j \in 1..(i - 1) : ctx.unsubscriptions[j].request_id # r
         IN  ctx.unsubscriptions[i].subscription
    ELSE 0

\* The request id of the Subscribed confirmation the first Event entry of
\* subscription sub holds.
OriginatingRequestId(ctx, sub) ==
    LET i == CHOOSE i \in 1..Len(ctx.events) :
                /\ ctx.events[i].subscription = sub
                /\ \A j \in 1..(i - 1) : ctx.events[j].subscription # sub
    IN  ctx.events[i].request_id

\* C19: handle_and_empty_contexts on Unsubscribed(r), when the Unsubscribe entry
\* of request id r has subscription s and the events list holds an entry for s,
\* removes every Unsubscribe entry and every Event entry of subscription s and
\* the Subscribe entries with the request id of the originating Subscribed, and
\* nothing else: all other entries stay, in order, in all the lists.
C19_CascadeByHandle ==
    [][(HandleCalled("Unsubscribed")
        /\ HasRequestId(context.unsubscriptions, message'.request_id)
        /\ HasSubscription(context.events,
                           UnsubscribeFound(context, message'.request_id))) =>
        LET sub == UnsubscribeFound(context, message'.request_id)
            q == OriginatingRequestId(context, sub)
        IN  /\ context'.unsubscriptions = WithoutSubscription(context.unsubscriptions, sub)
            /\ context'.events = WithoutSubscription(context.events, sub)
            /\ context'.subscriptions = WithoutRequestId(context.subscriptions, q)
            /\ \A l \in (Lists \cup {"messages"})
                        \ {"unsubscriptions", "events", "subscriptions"} :
                    context'[l] = context[l]
      ]_vars

\* C19 witness: the cascade has removed the Unsubscribe entry and the Event
\* entry of one subscription, and the Event entry of another subscription stays.
C19_Witness ==
    /\ op = "handle_and_empty_contexts"
    /\ message.type = "Unsubscribed"
    /\ dropped = 2
    /\ context.unsubscriptions = <<>>
    /\ Len(context.events) = 1

RECURSIVE Aggregate(_, _)

\* The Context obtained by merging the Contexts of parts, in order, into live.
Aggregate(live, parts) ==
    IF parts = <<>> THEN live ELSE Aggregate(Extend(live, Head(parts)), Tail(parts))

\* Two Contexts hold the same entries in the same order in every correlation
\* list, and the same outbound queue.
SameListsAndQueue(a, b) == \A l \in Lists \cup {"messages"} : a[l] = b[l]

\* C12: merging one detached Context into the one before it changes nothing in
\* what merging them all, oldest first, into the live Context yields: A, then B,
\* then C give the same lists and the same queue as (B merged into A), then C.
C12_MergeGrouping ==
    [][op' = "extend_detached" =>
        SameListsAndQueue(Aggregate(context', detached'), Aggregate(context, detached))
      ]_vars

\* C12 witness: of three detached Contexts two have been merged into one, and
\* both what came of it and the third hold entries.
C12_Witness ==
    /\ op = "extend_detached"
    /\ Len(detached) = 2
    /\ TotalEntries(detached[1]) + Len(detached[1].messages) >= 3
    /\ TotalEntries(detached[2]) >= 1

\* C13: Context::extend keeps what the receiver held, where it was: each list and
\* the queue of the live Context is, after the merge, what it was followed by
\* nothing or by the list of the merged Context.
C13_ExtendAppendOnly ==
    [][op' = "extend" =>
        /\ context'.socket = context.socket
        /\ \A l \in Lists \cup {"messages"} :
            \/ context'[l] = context[l] \o Head(detached)[l]
            \/ context'[l] = context[l]
      ]_vars

\* C13 witness: after a merge the live Context holds two different entries in
\* one list and two messages in its queue.
C13_Witness ==
    /\ op = "extend"
    /\ Len(context.registrations) = 2
    /\ context.registrations[1] # context.registrations[2]
    /\ Len(context.messages) = 2

\* C21: Context::extend appends every correlation list of the merged Context,
\* cancelations included, and its outbound queue to the receiver: after the
\* merge each list and the queue of the live Context is what it was followed by
\* that of the merged Context, so every entry a callback pushed is in it.
C21_ExtendAppendsEveryList ==
    [][op' = "extend" =>
        \A l \in Lists \cup {"messages"} :
            context'[l] = context[l] \o Head(detached)[l]
      ]_vars

\* The index of the first entry of seq with the request id r.
FirstWithRequestId(seq, r) ==
    CHOOSE i \in 1..Len(seq) :
        /\ seq[i].request_id = r
        /\ \A j \in 1..(i - 1) : seq[j].request_id # r

\* The latest turn dispatched an Error: read_contexts returned from
\* get_message_context on it.
ErrorTurn == op = "event_loop" /\ message.type = "Error" /\ result.tag # "Panic"

\* C22 (as claimed): a turn on Error(event=K, request_id=r) invokes, with a
\* failure, the callback of the pending entry with request id r in the list of
\* category K and no other callback, invokes nothing when that list holds no
\* such entry, and returns the message either way, for every K.
C22_ErrorReachesPending ==
    [][ErrorTurn' =>
        /\ result' = OkSome(message')
        /\ fired' =
            IF HasRequestId(context[CategoryList(message')], message'.request_id)
            THEN Cb(CategoryList(message'),
                    FirstWithRequestId(context[CategoryList(message')],
                                       message'.request_id),
                    FALSE)
            ELSE NoCb
      ]_vars

\* C22: a turn on Error(event=K, request_id=r) with K one of Call, Unsubscribe,
\* Subscribe, Publish, Register, Unregister and Cancel invokes, with a failure,
\* the callback of the first pending entry with request id r in the list of
\* category K and no other callback, and invokes nothing when that list holds
\* no such entry; a turn on Error(event=Invocation) invokes no callback whatever
\* the invocations list holds; the turn returns the message in every case.
C22_ErrorReachesRequester ==
    [][ErrorTurn' =>
        /\ result' = OkSome(message')
        /\ fired' =
            IF /\ message'.event # "Invocation"
               /\ HasRequestId(context[CategoryList(message')], message'.request_id)
            THEN Cb(CategoryList(message'),
                    FirstWithRequestId(context[CategoryList(message')],
                                       message'.request_id),
                    FALSE)
            ELSE NoCb
      ]_vars

\* C22 witness: an Error(event=Call) was delivered as a failure to the pending
\* Call while a pending Register holds the same request id.
C22_Witness ==
    /\ ErrorTurn
    /\ message.event = "Call"
    /\ fired # NoCb
    /\ fired.list = "calls"
    /\ ~fired.ok
    /\ HasRequestId(context.registrations, message.request_id)
    /\ result = OkSome(message)

\* C23 (as claimed): the Context handed to a callback during a turn has no
\* channel, nothing is written on the channel while the callback runs, and what
\* the callback sent has left the outbound queue of the live Context when the
\* turn ends.
C23_CallbackSendsDeferred ==
    (op = "event_loop" /\ handed.ran) =>
        /\ ~handed.socket
        /\ handed.out = <<>>
        /\ context.messages = <<>>

\* The messages of another role named by the rejection rule.
RejectedTypes ==
    {"Hello", "Call", "Register", "Subscribe", "Unregister", "Unsubscribe",
     "Authenticate"}

\* C24: a turn of the single-threaded engine that dispatches a Hello, Call,
\* Register, Subscribe, Unregister, Unsubscribe or Authenticate returns the
\* invalid-frame-received error with the message, invokes no callback and leaves
\* every correlation list as it was; a read of the broadcast engine on such a
\* message makes event_loop return that error and leaves the dispatch units and
\* the registry as they were, and no dispatch unit ever exists for such a message.
C24_RejectedMessages ==
    [][/\ (/\ op' = "event_loop"
           /\ message'.type \in RejectedTypes
           /\ result'.tag # "Panic") =>
            /\ result' = Err("InvalidFrameReceived", message')
            /\ fired' = NoCb
            /\ ~handed'.ran
            /\ CorrelationLists(context') = CorrelationLists(context)
       /\ (reader.st = "running" /\ reader'.kind \in RejectedTypes) =>
            /\ reader'.st = "returned"
            /\ reader'.err = "InvalidFrameReceived"
            /\ units' = units
            /\ events' = events
       /\ \A u \in 1..MaxUnits : units'[u].kind \notin RejectedTypes
      ]_vars

\* C24 witness: with a Register pending the single-threaded engine has returned
\* the error for an inbound Register, and with a listener registered the read
\* loop of the broadcast engine has returned it for an inbound Subscribe.
C24_Witness ==
    /\ op = "event_loop"
    /\ message.type = "Register"
    /\ result = Err("InvalidFrameReceived", message)
    /\ context.registrations # <<>>
    /\ reader.st = "returned"
    /\ reader.kind = "Subscribe"
    /\ reader.err = "InvalidFrameReceived"
    /\ events # <<>>

\* C25 (as claimed): a turn of the single-threaded engine never ends in an
\* abnormal termination because of the transport: whether the blocking read or a
\* write of the flush fails, the turn returns a value to its caller (the one
\* message for which the dispatch itself is unimplemented set apart).
C25_TransportFailureReturned ==
    (op = "event_loop" /\ message.type # "Extension") => result.tag # "Panic"

\* C26 (as claimed): a call of on or remove_callbacks made inside a listener
\* callback returns: no dispatch unit is ever stuck on the registry lock its own
\* thread holds, and none dies on it leaving the lock poisoned.
C26_ReentrantCallsReturn ==
    /\ \A u \in 1..MaxUnits : units[u].st # "deadlocked"
    /\ ~events_poisoned

\* C27 (as claimed): a dispatch unit whose listener callback is executing does
\* not hold the registry lock.
C27_NoLockAcrossCallback ==
    \A u \in 1..MaxUnits : units[u].st = "callback" => events_lock # u

\* Some listener of the registry is of the kind of the message of unit u.
HasListenerFor(u) == \E i \in 1..Len(events) : events[i].kind = units[u].kind

\* C28 (as claimed): callbacks of two messages run in parallel: while a callback
\* of one dispatch unit is running, however long it runs, the unit of another
\* message that has a listener gets to run its callback at the same time.
C28_ParallelCallbacks ==
    \A u1, u2 \in 1..MaxUnits :
        (/\ u1 # u2
         /\ units[u1].st = "callback"
         /\ events[units[u1].idx].body = "nop"
         /\ units[u2].st = "spawned"
         /\ HasListenerFor(u2))
        ~> (\/ units[u1].st # "callback"
            \/ units[u2].st = "callback")

\* Callbacks of two dispatch units never run at the same time.
NeverParallel ==
    \A u1, u2 \in 1..MaxUnits :
        (units[u1].st = "callback" /\ units[u2].st = "callback") => u1 = u2

\* C29: the read loop never waits for a dispatch unit: as long as event_loop has
\* not returned (and the model has a thread left to spawn), the read of the next
\* message can be taken, whatever the units spawned before are doing.
C29_ReadNeverWaits ==
    \A kind \in EventKinds :
        (reader.st = "running" /\ \E u \in 1..MaxUnits : units[u].st = "idle")
            => ENABLED ReadThenRunEvent(kind, 0, 0)

\* C29 witness: a unit was spawned by a read issued while a callback of another
\* unit was running, and a callback of the other unit is running still.
C29_Witness ==
    \E u1, u2 \in 1..MaxUnits :
        /\ u1 # u2
        /\ units[u1].st = "callback"
        /\ units[u2].st = "spawned"
        /\ units[u2].overlap

\* The ids of the listeners of evs whose variant is kind, in registry order.
MatchingIds(evs, kind) ==
    LET match(l) == l.kind = kind
        sel == SelectSeq(evs, match)
    IN  [i \in 1..Len(sel) |-> sel[i].id]

\* The sequence a is the beginning of the sequence b.
IsPrefix(a, b) == Len(a) <= Len(b) /\ a = SubSeq(b, 1, Len(a))

\* C30: a dispatch unit invokes listeners of the kind of its message only, in
\* registry order and each once, out of the registry as it was when the unit
\* locked it, and a unit that reaches the end of the registry has invoked every
\* one of them.
C30_UnitInvokesMatching ==
    [][\A u \in 1..MaxUnits :
        /\ units'[u].st \in {"iterating", "callback", "deadlocked"} =>
            IsPrefix(units'[u].invoked,
                     MatchingIds(units'[u].snapshot, units'[u].kind))
        /\ (units[u].st = "iterating" /\ units'[u].st = "idle") =>
            units[u].invoked = MatchingIds(units[u].snapshot, units[u].kind)
      ]_vars

\* C30 witness: a unit at the end of a registry of two listeners of different
\* kinds has invoked the one of the kind of its message.
C30_Witness ==
    \E u \in 1..MaxUnits :
        /\ units[u].st = "iterating"
        /\ units[u].idx > Len(units[u].snapshot)
        /\ Len(units[u].snapshot) = 2
        /\ units[u].snapshot[1].kind # units[u].snapshot[2].kind
        /\ Len(units[u].invoked) = 1
        /\ units[u].invoked = MatchingIds(units[u].snapshot, units[u].kind)

\* C31 (as claimed): the shared counter hands out a different value at every
\* call: the routing ids a helper has taken with new_routing_id, which it records
\* in routing_ids in the order of the calls, are pairwise different.
C31_DistinctIdentifiers ==
    \A i, j \in 1..Len(helper.routing_ids) :
        i # j => helper.routing_ids[i] # helper.routing_ids[j]

\* C32 (as claimed): a read of the broadcast engine that takes a Binary frame
\* makes event_loop return the unsupported-encoding error: the frame is not
\* passed over as no message.
C32_ThreadsBinaryIsError ==
    reader.frame = "Binary" => (reader.st = "returned" /\ reader.err = "Binary")

\* C37 (as claimed): no send waits for the channel mutex while the read loop,
\* blocked on the frame to come, holds it.
C37_SendNotBehindRead ==
    sender = "waiting" => ~ReaderHoldsChannel

\* The call of the helper has reached its poll loop, or has returned.
HelperPolling == helper.pc \in {"check_time", "read_result", "read_error", "done"}

\* C33 (as claimed): when the call of subscribe / unsubscribe starts polling the
\* result cells, with both listeners registered, it has transmitted the request
\* once, and it does not transmit it again.
C33_RequestSentOnce == HelperPolling => helper.sent = 1

\* C34: the call returns one result and does not change it; an iteration of the
\* poll loop that finds both cells populated when it reads the success cell ends
\* the call with the success result.
C34_SuccessCheckedFirst ==
    [][/\ (/\ helper.pc = "read_result"
           /\ helper' # helper
           /\ cells.routed_reference /\ cells.wamperror) =>
            (helper'.pc = "read_error" /\ helper'.result /\ helper'.polled_both)
       /\ (helper.pc = "read_error" /\ helper' # helper /\ helper.polled_both) =>
            (helper'.pc = "done" /\ helper'.ret = "Ok(Ok)")
       /\ helper'.pc = "done" => helper'.ret \in {"Ok(Ok)", "Ok(Err)", "TimeOutError"}
       /\ helper.pc = "done" => (helper'.pc = "done" /\ helper'.ret = helper.ret)
      ]_vars

\* C34 witness: a call has returned the success result out of an iteration that
\* found both cells populated.
C34_Witness ==
    /\ helper.pc = "done"
    /\ helper.polled_both
    /\ helper.ret = "Ok(Ok)"
    /\ cells.routed_reference
    /\ cells.wamperror

\* C35 (as claimed): a helper whose subscribe has returned a Subscribed
\* confirmation holds a confirmation, so that events() finds one.
C35_ConfirmationHeld ==
    (helper.pc = "done" /\ helper.variant = "Subscribed" /\ helper.ret = "Ok(Ok)")
        => helper.subscribed # NoSubscribed

\* The confirmation the helper held when events() registered the listener id.
HeldAt(id) ==
    (CHOOSE e \in {helper.listening[i] : i \in 1..Len(helper.listening)} :
        e.id = id).subscribed

\* C36 (as claimed): the listener of events() calls the callback of the user for
\* an Event exactly when the subscription of the Event is the subscription of
\* the confirmation the helper held when events() was called.
C36_DeliveredBySubscription ==
    [][\A u \in 1..MaxUnits :
        (/\ units[u].st = "callback"
         /\ units'[u].st # "callback"
         /\ events[units[u].idx].body = "helper_event") =>
            LET l == events[units[u].idx]
            IN  (units'[u].delivered # units[u].delivered)
                    <=> (units[u].subscription = HeldAt(l.id).subscription)
      ]_vars

\* C39 (as claimed): a dispatch unit runs a callback only when every unit of a
\* message of the same kind read before its own has taken the registry: a
\* listener gets the messages of one kind in the order they were read.
C39_ReadOrderDelivery ==
    \A u \in 1..MaxUnits : units[u].st = "callback" => units[u].earlier = {}

\* The latest turn decoded a message and got past the flush of the outbound
\* queue: get_message_context was called on the message.
DispatchReached == op = "event_loop" /\ frame = "Text" /\ context.messages = <<>>

\* C38 (as claimed): get_message_context returns a value, a message or an
\* error, on every message the codec decodes, Extension and Abort included: the
\* dispatch of no message ends in an abnormal termination.
C38_EveryCategoryReturns == DispatchReached => result.tag \in {"Ok", "Err"}

====
